---- MODULE Spec2Model ----
(***************************************************************************)
(* Model of src/app.py: the upload-and-chart script of SaturationApp.      *)
(*                                                                         *)
(* One behaviour is one run of the script: either no file has been         *)
(* uploaded (the example table is shown) or a CSV file is uploaded and the *)
(* pipeline of lines 16-116 runs statement by statement.  `out` is the     *)
(* sequence of elements the run has put on the page, in emission order.    *)
(*                                                                         *)
(* Numbers are stored exactly, in halves: the stored integer v stands for  *)
(* the number v/2, so that 0.5 and truncation by int() are representable.  *)
(***************************************************************************)
EXTENDS Integers, Sequences, FiniteSets, TLC

VARIABLES uploaded_file, pc, df, exc, out

vars == <<uploaded_file, pc, df, exc, out>>

----------------------------------------------------------------------------
(* Bounds of the model *)

MaxRows == 2

ColumnCounts == {2, 3, 4}

(* Raw CSV cell texts, per column position. "" is an empty cell. *)
InterviewTokens == {"1", "2", "x"}
CollectedTokens == {"3", ""}
NewTokens == {"-1", "0.5", "abc"}
ExtraTokens == {"", "note"}

(* Header texts of a fourth column; the first three headers are fixed.     *)
ExtraHeaders == {"Notes", "Interview_Number"}

----------------------------------------------------------------------------
(* Values *)

None == [kind |-> "none"]
Str(t) == [kind |-> "str", text |-> t]
Num(v) == [kind |-> "num", val |-> v]
NaN == [kind |-> "nan"]

isna(c) == c.kind = "nan"

(* The integer n as a stored value (halves). *)
Whole(n) == 2 * n

(* Texts that parse as a number, with the number they denote. *)
NumericLiteral ==
    ("-1" :> -2) @@ ("0.5" :> 1) @@ ("1" :> Whole(1)) @@ ("2" :> Whole(2)) @@
    ("3" :> Whole(3)) @@ ("4" :> Whole(4)) @@ ("5" :> Whole(5)) @@
    ("6" :> Whole(6)) @@ ("8" :> Whole(8)) @@ ("10" :> Whole(10)) @@
    ("12" :> Whole(12)) @@ ("14" :> Whole(14)) @@ ("15" :> Whole(15)) @@
    ("18" :> Whole(18))

IsNumericText(t) == t \in DOMAIN NumericLiteral

Range(s) == {s[i] : i \in DOMAIN s}

----------------------------------------------------------------------------
(* Uploaded files *)

RECURSIVE SeqSum(_)
SeqSum(s) == IF s = <<>> THEN 0 ELSE s[1] + SeqSum(Tail(s))

TokensAt(c) ==
    CASE c = 1 -> InterviewTokens
      [] c = 2 -> CollectedTokens
      [] c = 3 -> NewTokens
      [] OTHER -> ExtraTokens

(* The text rows of a file with n columns. *)
TextRows(n) ==
    {r \in [1..n -> InterviewTokens \cup CollectedTokens \cup NewTokens \cup ExtraTokens] :
        \A c \in 1..n : r[c] \in TokensAt(c)}

Headers(n) ==
    IF n <= 3
    THEN {SubSeq(<<"Interview", "Collected", "New">>, 1, n)}
    ELSE {<<"Interview", "Collected", "New", h>> : h \in ExtraHeaders}

CsvFile(h, rows) == [parses |-> TRUE, header |-> h, rows |-> rows]

(* A file the CSV reader rejects (empty file, ragged lines, bad encoding). *)
MalformedFile == [parses |-> FALSE, header |-> <<>>, rows |-> <<>>]

(* The example rows of the page, as a file, in order and shuffled 3,1,5,2,4 *)
ExampleRows ==
    << <<"1", "10", "10">>, <<"2", "15", "8">>, <<"3", "12", "5">>,
       <<"4", "18", "10">>, <<"5", "14", "6">> >>

ExampleFile == CsvFile(<<"Interview", "Collected", "New">>, ExampleRows)

ShuffledExampleFile ==
    CsvFile(<<"Interview", "Collected", "New">>,
            [i \in 1..5 |-> ExampleRows[<<3, 1, 5, 2, 4>>[i]]])

----------------------------------------------------------------------------
(* DataFrame operations *)

DataFrame(columns, rows) == [columns |-> columns, rows |-> rows]

Row(index, cells) == [index |-> index, cells |-> cells]

len(d) == Len(d.rows)

(* Positions of the columns carrying a label. *)
Locate(d, label) == {c \in DOMAIN d.columns : d.columns[c] = label}

(* d[label] is a Series only when exactly one column carries the label. *)
IsSeries(d, label) == Cardinality(Locate(d, label)) = 1

Pos(d, label) == CHOOSE c \in Locate(d, label) : TRUE

Series(d, label) == [i \in 1..len(d) |-> d.rows[i].cells[Pos(d, label)]]

(* pd.read_csv: a column whose cells are all numeric or empty is parsed,   *)
(* any other column keeps its texts; an empty cell is missing either way.  *)
ParsedColumn(file, c) ==
    \A i \in DOMAIN file.rows :
        file.rows[i][c] = "" \/ IsNumericText(file.rows[i][c])

read_cell(file, i, c) ==
    LET t == file.rows[i][c] IN
    IF t = "" THEN NaN
    ELSE IF ParsedColumn(file, c) THEN Num(NumericLiteral[t])
    ELSE Str(t)

read_csv(file) ==
    DataFrame(file.header,
              [i \in DOMAIN file.rows |->
                  Row(i - 1, [c \in DOMAIN file.header |-> read_cell(file, i, c)])])

(* pd.to_numeric(..., errors='coerce') on one value. *)
to_numeric(c) ==
    CASE c.kind = "num" -> c
      [] c.kind = "str" -> IF IsNumericText(c.text) THEN Num(NumericLiteral[c.text]) ELSE NaN
      [] OTHER -> NaN

(* df[label] = pd.to_numeric(df[label], errors='coerce') for a label       *)
(* carried by one column.                                                  *)
CoerceColumn(d, label) ==
    DataFrame(d.columns,
              [i \in 1..len(d) |->
                  Row(d.rows[i].index,
                      [c \in DOMAIN d.columns |->
                          IF c = Pos(d, label) THEN to_numeric(d.rows[i].cells[c])
                          ELSE d.rows[i].cells[c]])])

(* The rows with no missing value at the given column positions, in order. *)
RECURSIVE CompleteRows(_, _)
CompleteRows(rows, positions) ==
    IF rows = <<>> THEN <<>>
    ELSE IF \A c \in positions : ~isna(rows[1].cells[c])
         THEN <<rows[1]>> \o CompleteRows(Tail(rows), positions)
         ELSE CompleteRows(Tail(rows), positions)

dropna_any_column(d, subset) ==
    DataFrame(d.columns, CompleteRows(d.rows, DOMAIN d.columns))

(* df.dropna(subset=labels) *)
dropna(d, subset) ==
    DataFrame(d.columns, CompleteRows(d.rows, {Pos(d, label) : label \in subset}))

Arrangements(n) == {p \in [1..n -> 1..n] : \A i, j \in 1..n : p[i] = p[j] => i = j}

sort_values_skipped(d, label) == {d}

(* df.sort_values(label): ascending by the column with the default         *)
(* kind='quicksort', which does not promise an order among equal keys; the *)
(* result is any ascending arrangement of the rows.                        *)
sort_values(d, label) ==
    LET key(r) == r.cells[Pos(d, label)].val
        n == len(d)
    IN {DataFrame(d.columns, [i \in 1..n |-> d.rows[p[i]]]) :
            p \in {q \in Arrangements(n) :
                      \A i, j \in 1..n : i < j => key(d.rows[q[i]]) <= key(d.rows[q[j]])}}

cumsum_exclusive(s) == [i \in DOMAIN s |-> Num(SeqSum([k \in 1..(i - 1) |-> s[k].val]))]

cumsum_reversed(s) == [i \in DOMAIN s |-> Num(SeqSum([k \in 1..(Len(s) - i + 1) |-> s[i + k - 1].val]))]

(* Series.cumsum() *)
cumsum(s) == [i \in DOMAIN s |-> Num(SeqSum([k \in 1..i |-> s[k].val]))]

(* df[label] = series, for a label no column carries yet. *)
AddColumn(d, label, s) ==
    DataFrame(Append(d.columns, label),
              [i \in 1..len(d) |-> Row(d.rows[i].index, Append(d.rows[i].cells, s[i]))])

(* df[[labels]] *)
Project(d, labels) ==
    DataFrame(labels,
              [i \in 1..len(d) |->
                  Row(d.rows[i].index,
                      [k \in DOMAIN labels |-> d.rows[i].cells[Pos(d, labels[k])]])])

Abs(x) == IF x < 0 THEN -x ELSE x

int_floor(x) == x.val \div 2

(* int(x): truncation toward zero of the number x.val / 2 *)
int(x) == IF x.val < 0 THEN -(Abs(x.val) \div 2) ELSE x.val \div 2

(* Series.max(): NaN on an empty series *)
max(s) ==
    IF s = <<>> THEN NaN
    ELSE Num(CHOOSE m \in {s[i].val : i \in DOMAIN s} : \A i \in DOMAIN s : s[i].val <= m)

(* Series.mean(): the exact quotient, kept as numerator and denominator of *)
(* the number itself (the halves are folded into the denominator).         *)
mean(s) == [num |-> SeqSum([i \in DOMAIN s |-> s[i].val]), den |-> 2 * Len(s)]

(* f"{x:.1f}": the number of tenths nearest to x, ties to the even tenth.  *)
format_1f(x) ==
    LET a == 10 * Abs(x.num)
        q == a \div x.den
        r == a % x.den
        t == IF 2 * r > x.den \/ (2 * r = x.den /\ q % 2 = 1) THEN q + 1 ELSE q
    IN [tenths |-> IF x.num < 0 THEN -t ELSE t]

----------------------------------------------------------------------------
(* Page elements *)

Element(w, label, value) == [w |-> w, label |-> label, value |-> value]

StructuralMessage ==
    "CSV file must have at least 3 columns: Interview Number, Concepts Collected, New Concepts"

FormatHint ==
    "Please ensure your CSV file has the correct format: Column 1: Interview Number (integer), Column 2: Concepts Collected (integer), Column 3: New Concepts (integer)"

BoundLabels == <<"Interview_Number", "Concepts_Collected", "New_Concepts">>

CumulativeLabel == "Cumulative_Unique_Concepts"

PreviewLabels == BoundLabels \o <<CumulativeLabel>>

ExceptionClasses_narrow == {"ParserError", "TypeError", "ValueError"}

(* The classes `except Exception` catches, among those the run can raise.  *)
ExceptionClasses == {"ParserError", "TypeError", "ValueError", "IndexError"}

(* raise: control passes to the handler of the enclosing try, if it        *)
(* catches the class, and leaves the script otherwise.                     *)
Raise(class) ==
    /\ exc' = class
    /\ pc' = IF class \in ExceptionClasses THEN "except" ELSE "crashed"

Emit(e) == out' = Append(out, e)

TooFewColumns_two(d) == Len(d.columns) < 2

(* Line 21 *)
TooFewColumns(d) == Len(d.columns) < 3

(* Line 25 *)
bind(d) == DataFrame(BoundLabels \o SubSeq(d.columns, 4, Len(d.columns)), d.rows)

(* Lines 28-30, when each bound label names a Series *)
coerce(d) ==
    CoerceColumn(CoerceColumn(CoerceColumn(d, BoundLabels[1]), BoundLabels[2]),
                 BoundLabels[3])

(* Lines 106-112: the four summary values of a non-empty table *)
total_interviews(d) == len(d)
total_unique(d) == int(Series(d, CumulativeLabel)[len(d)])
avg_collected(d) == format_1f(mean(Series(d, BoundLabels[2])))
avg_new(d) == format_1f(mean(Series(d, BoundLabels[3])))

(* Lines 122-127 *)
example_data ==
    [Interview_Number |-> <<1, 2, 3, 4, 5>>,
     Concepts_Collected |-> <<10, 15, 12, 18, 14>>,
     New_Concepts |-> <<10, 8, 5, 10, 6>>]

example_df ==
    DataFrame(BoundLabels,
              [i \in 1..5 |->
                  Row(i - 1, << Num(Whole(example_data.Interview_Number[i])),
                                Num(Whole(example_data.Concepts_Collected[i])),
                                Num(Whole(example_data.New_Concepts[i])) >>)])

----------------------------------------------------------------------------
(* The script *)

Init ==
    /\ uploaded_file = None
    /\ pc = "start"
    /\ df = None
    /\ exc = ""
    /\ out = <<>>

(* Line 13: the uploader returns a file in this run *)
Upload ==
    /\ pc = "start"
    /\ \/ \E f \in {MalformedFile, ExampleFile, ShuffledExampleFile} : uploaded_file' = f
       \/ \E n \in ColumnCounts : \E h \in Headers(n) : \E k \in 0..MaxRows :
             \E rows \in [1..k -> TextRows(n)] : uploaded_file' = CsvFile(h, rows)
    /\ pc' = "read_csv"
    /\ UNCHANGED <<df, exc, out>>

(* Lines 117-129: no file; the hint and the example table are shown *)
ShowExample ==
    /\ pc = "start"
    /\ LET shown == AddColumn(example_df, CumulativeLabel,
                              cumsum(Series(example_df, BoundLabels[3])))
       IN out' = out \o
              << Element("info", "", "Please upload a CSV file to get started"),
                 Element("subheader", "", "Expected CSV Format"),
                 Element("dataframe", "example", shown) >>
    /\ pc' = "done"
    /\ UNCHANGED <<uploaded_file, df, exc>>

(* Line 18 *)
ReadCsv ==
    /\ pc = "read_csv"
    /\ IF uploaded_file.parses
       THEN /\ df' = read_csv(uploaded_file)
            /\ pc' = "validate"
            /\ UNCHANGED exc
       ELSE /\ Raise("ParserError")
            /\ UNCHANGED df
    /\ UNCHANGED <<uploaded_file, out>>

(* Lines 21-22: too few columns; the message is shown and the run ends *)
RejectColumns ==
    /\ pc = "validate"
    /\ TooFewColumns(df)
    /\ Emit(Element("error", "", StructuralMessage))
    /\ pc' = "done"
    /\ UNCHANGED <<uploaded_file, df, exc>>

(* Lines 23-25: the first three columns are relabelled by position *)
BindColumns ==
    /\ pc = "validate"
    /\ ~TooFewColumns(df)
    /\ df' = bind(df)
    /\ pc' = "to_numeric"
    /\ UNCHANGED <<uploaded_file, exc, out>>

(* Lines 28-30: pd.to_numeric raises TypeError when df[label] is not a     *)
(* Series, which happens when a later column carries a bound label too.    *)
Coerce ==
    /\ pc = "to_numeric"
    /\ IF \A k \in DOMAIN BoundLabels : IsSeries(df, BoundLabels[k])
       THEN /\ df' = coerce(df)
            /\ pc' = "dropna"
            /\ UNCHANGED exc
       ELSE /\ Raise("TypeError")
            /\ UNCHANGED df
    /\ UNCHANGED <<uploaded_file, out>>

(* Line 33 *)
DropNa ==
    /\ pc = "dropna"
    /\ df' = dropna(df, Range(BoundLabels))
    /\ pc' = "sort_values"
    /\ UNCHANGED <<uploaded_file, exc, out>>

(* Line 36 *)
SortValues ==
    /\ pc = "sort_values"
    /\ df' \in sort_values(df, BoundLabels[1])
    /\ pc' = "cumsum"
    /\ UNCHANGED <<uploaded_file, exc, out>>

(* Line 39 *)
CumSum ==
    /\ pc = "cumsum"
    /\ df' = AddColumn(df, CumulativeLabel, cumsum(Series(df, BoundLabels[3])))
    /\ pc' = "preview"
    /\ UNCHANGED <<uploaded_file, exc, out>>

(* Lines 42-43 *)
Preview ==
    /\ pc = "preview"
    /\ out' = out \o << Element("subheader", "", "Data Preview"),
                        Element("dataframe", "preview", Project(df, PreviewLabels)) >>
    /\ pc' = "chart"
    /\ UNCHANGED <<uploaded_file, df, exc>>

(* Lines 46-97: the figure; the shared axis range is [0, 1.1 * y_max],     *)
(* kept as the number of twentieths (11 * the stored maximum).             *)
Figure(d) ==
    LET max_cumulative == max(Series(d, CumulativeLabel))
        max_per_interview == max(Series(d, BoundLabels[2]))
        y_max == IF isna(max_cumulative) \/ isna(max_per_interview) THEN NaN
                 ELSE Num(11 * (IF max_cumulative.val >= max_per_interview.val
                                THEN max_cumulative.val ELSE max_per_interview.val))
    IN [x |-> Series(d, BoundLabels[1]),
        line |-> Series(d, CumulativeLabel),
        bars |-> Series(d, BoundLabels[2]),
        range |-> y_max]

(* Lines 46-101.  On an empty table the axis range is NaN; whether the     *)
(* charting library accepts such a figure is not decided by this source,   *)
(* so the chart is either shown or rejected with a ValueError.             *)
Chart ==
    /\ pc = "chart"
    /\ \/ /\ out' = out \o << Element("subheader", "", "Visualization"),
                              Element("plotly_chart", "", Figure(df)) >>
          /\ pc' = "metric_1"
          /\ UNCHANGED exc
       \/ /\ isna(Figure(df).range)
          /\ Raise("ValueError")
          /\ UNCHANGED out
    /\ UNCHANGED <<uploaded_file, df>>

(* Lines 104-106 *)
MetricTotalInterviews ==
    /\ pc = "metric_1"
    /\ Emit(Element("metric", "Total Interviews", total_interviews(df)))
    /\ pc' = "metric_2"
    /\ UNCHANGED <<uploaded_file, df, exc>>

(* Lines 107-108: iloc[-1] raises IndexError on an empty series *)
MetricTotalUnique ==
    /\ pc = "metric_2"
    /\ IF len(df) = 0
       THEN /\ Raise("IndexError")
            /\ UNCHANGED out
       ELSE /\ Emit(Element("metric", "Total Unique Concepts", total_unique(df)))
            /\ pc' = "metric_3"
            /\ UNCHANGED exc
    /\ UNCHANGED <<uploaded_file, df>>

(* Lines 109-110 *)
MetricAvgCollected ==
    /\ pc = "metric_3"
    /\ Emit(Element("metric", "Avg Concepts/Interview", avg_collected(df)))
    /\ pc' = "metric_4"
    /\ UNCHANGED <<uploaded_file, df, exc>>

(* Lines 111-112 *)
MetricAvgNew ==
    /\ pc = "metric_4"
    /\ Emit(Element("metric", "Avg New Concepts/Interview", avg_new(df)))
    /\ pc' = "done"
    /\ UNCHANGED <<uploaded_file, df, exc>>

(* Lines 114-116 *)
Except ==
    /\ pc = "except"
    /\ out' = out \o << Element("error", "Error processing file", exc),
                        Element("info", "", FormatHint) >>
    /\ pc' = "done"
    /\ UNCHANGED <<uploaded_file, df, exc>>

Next ==
    \/ Upload
    \/ ShowExample
    \/ ReadCsv
    \/ RejectColumns
    \/ BindColumns
    \/ Coerce
    \/ DropNa
    \/ SortValues
    \/ CumSum
    \/ Preview
    \/ Chart
    \/ MetricTotalInterviews
    \/ MetricTotalUnique
    \/ MetricAvgCollected
    \/ MetricAvgNew
    \/ Except

Spec == Init /\ [][Next]_vars

----------------------------------------------------------------------------
(* What the run was given, read off the text of the uploaded file *)

Uploaded == uploaded_file # None

Parsed == Uploaded /\ uploaded_file.parses

ColumnCount == Len(uploaded_file.header)

(* Row i of the file has a number in each of its first three cells. *)
Coercible(file, i) == \A c \in 1..3 : IsNumericText(file.rows[i][c])

RetainedRows(file) == {i \in DOMAIN file.rows : Coercible(file, i)}

(* What the run has put on the page *)

Has(w) == \E i \in DOMAIN out : out[i].w = w

MetricShown(label) == \E i \in DOMAIN out : out[i].w = "metric" /\ out[i].label = label

MetricValue(label) ==
    out[CHOOSE i \in DOMAIN out : out[i].w = "metric" /\ out[i].label = label].value

PreviewShown == \E i \in DOMAIN out : out[i].w = "dataframe" /\ out[i].label = "preview"

PreviewTable ==
    out[CHOOSE i \in DOMAIN out : out[i].w = "dataframe" /\ out[i].label = "preview"].value

MetricLabels ==
    {"Total Interviews", "Total Unique Concepts", "Avg Concepts/Interview",
     "Avg New Concepts/Interview"}

Succeeded ==
    /\ pc = "done"
    /\ Uploaded
    /\ ~Has("error")
    /\ \A label \in MetricLabels : MetricShown(label)

StructuralError == Element("error", "", StructuralMessage)

Hint == Element("info", "", FormatHint)

----------------------------------------------------------------------------
(* C1: a run that reports an error has shown no preview table, no chart    *)
(* and no summary metric.                                                  *)
C1_NoPartialOutput ==
    Has("error") =>
        \A i \in DOMAIN out : out[i].w \notin {"dataframe", "plotly_chart", "metric"}

(* C2: every finished run that reports an error also shows the hint on the *)
(* expected column order and types.                                        *)
C2_ErrorWithHint ==
    (pc = "done" /\ Has("error")) => \E i \in DOMAIN out : out[i] = Hint

(* C3: a parsed file with fewer than three columns gets the structural     *)
(* error and nothing else: the table is never relabelled, coerced,         *)
(* filtered, sorted or extended, and no preview, chart or metric is shown. *)
C3_StructuralGate ==
    (Parsed /\ ColumnCount < 3) =>
        /\ pc \in {"read_csv", "validate", "done"}
        /\ df \in {None, read_csv(uploaded_file)}
        /\ out = IF pc = "done" THEN <<StructuralError>> ELSE <<>>

C3_Witness ==
    /\ Parsed
    /\ ColumnCount = 2
    /\ Len(uploaded_file.rows) > 0
    /\ pc = "done"
    /\ out = <<StructuralError>>
    /\ df = read_csv(uploaded_file)

(* C4: a parsed file of at least three columns of which no row survives    *)
(* the filter ends with the processing error caught by the handler: the    *)
(* run never leaves the script through an uncaught exception and never     *)
(* finishes with the summary metrics.                                      *)
C4_AllRowsFail ==
    (Parsed /\ ColumnCount >= 3 /\ RetainedRows(uploaded_file) = {}) =>
        /\ pc # "crashed"
        /\ pc = "done" =>
              /\ Len(out) >= 2
              /\ out[Len(out) - 1] = Element("error", "Error processing file", exc)
              /\ exc \in ExceptionClasses
              /\ out[Len(out)] = Hint
              /\ \A label \in MetricLabels \ {"Total Interviews"} : ~MetricShown(label)

C4_Witness ==
    /\ Parsed
    /\ ColumnCount >= 3
    /\ Len(uploaded_file.rows) >= 2
    /\ RetainedRows(uploaded_file) = {}
    /\ pc = "done"
    /\ exc = "IndexError"
    /\ out[Len(out) - 1] = Element("error", "Error processing file", "IndexError")

----------------------------------------------------------------------------
(* The numbers of the retained rows, read off the text of the file *)

TextValue(file, i, c) == NumericLiteral[file.rows[i][c]]

SumNew(file) ==
    SeqSum([i \in DOMAIN file.rows |->
               IF Coercible(file, i) THEN TextValue(file, i, 3) ELSE 0])

Values(t) == [i \in DOMAIN t.rows |-> [c \in DOMAIN t.columns |-> t.rows[i].cells[c].val]]

ColumnValues(t, label) == [i \in DOMAIN t.rows |-> Series(t, label)[i].val]

C6_RowCount ==
    Succeeded =>
        /\ MetricValue("Total Interviews") = Cardinality(RetainedRows(uploaded_file))
        /\ Len(PreviewTable.rows) = Cardinality(RetainedRows(uploaded_file))
        /\ {PreviewTable.rows[i].index + 1 : i \in DOMAIN PreviewTable.rows}
              = RetainedRows(uploaded_file)

C6_Witness ==
    /\ Succeeded
    /\ ColumnCount = 4
    /\ Len(uploaded_file.rows) = 2
    /\ MetricValue("Total Interviews") = 1
    /\ \E i \in RetainedRows(uploaded_file) : uploaded_file.rows[i][4] = ""

(* C7: in the final table, ascending by interview number, the cumulative   *)
(* column starts with the first row's own new_items and grows by each      *)
(* row's new_items; the example rows give 10, 18, 23, 33, 39.              *)
C7_RunningSum ==
    /\ PreviewShown =>
          LET key == ColumnValues(PreviewTable, BoundLabels[1])
              new == ColumnValues(PreviewTable, BoundLabels[3])
              cum == ColumnValues(PreviewTable, CumulativeLabel)
          IN /\ \A i \in DOMAIN cum :
                   IF i = 1 THEN cum[i] = new[i]
                   ELSE cum[i] = cum[i - 1] + new[i] /\ key[i - 1] <= key[i]
             /\ uploaded_file = ExampleFile =>
                   cum = <<Whole(10), Whole(18), Whole(23), Whole(33), Whole(39)>>
    /\ \A i \in DOMAIN out :
          (out[i].w = "dataframe" /\ out[i].label = "example") =>
              ColumnValues(out[i].value, CumulativeLabel)
                  = <<Whole(10), Whole(18), Whole(23), Whole(33), Whole(39)>>

C7_Witness ==
    /\ uploaded_file = ExampleFile
    /\ pc = "done"
    /\ PreviewShown
    /\ ColumnValues(PreviewTable, CumulativeLabel)[5] = Whole(39)

(* C8: when every retained row has new_items >= 0, the cumulative column   *)
(* of the final table never decreases from one row to the next.            *)
C8_Monotone ==
    (PreviewShown /\ \A i \in DOMAIN PreviewTable.rows :
                        ColumnValues(PreviewTable, BoundLabels[3])[i] >= 0) =>
        LET cum == ColumnValues(PreviewTable, CumulativeLabel)
        IN \A i, j \in DOMAIN cum : i < j => cum[i] <= cum[j]

C8_Witness ==
    /\ PreviewShown
    /\ Len(PreviewTable.rows) = 2
    /\ \A i \in 1..2 : ColumnValues(PreviewTable, BoundLabels[3])[i] > 0
    /\ PreviewTable.rows[1].index > PreviewTable.rows[2].index
    /\ ColumnValues(PreviewTable, CumulativeLabel)[1]
          < ColumnValues(PreviewTable, CumulativeLabel)[2]

(* Lines 18-43 as a function of the file: the tables the preview can show. *)
FinalTables(file) ==
    {Project(AddColumn(s, CumulativeLabel, cumsum(Series(s, BoundLabels[3]))), PreviewLabels) :
        s \in sort_values(dropna(coerce(bind(read_csv(file))), Range(BoundLabels)),
                          BoundLabels[1])}

Summary(t) ==
    [label \in MetricLabels |->
        CASE label = "Total Interviews" -> [n |-> total_interviews(t)]
          [] label = "Total Unique Concepts" -> [n |-> total_unique(t)]
          [] label = "Avg Concepts/Interview" -> avg_collected(t)
          [] OTHER -> avg_new(t)]

Rearranged(file, p) == CsvFile(file.header, [i \in DOMAIN file.rows |-> file.rows[p[i]]])

DistinctInterviews(file) ==
    \A i, j \in RetainedRows(file) :
        TextValue(file, i, 1) = TextValue(file, j, 1) => i = j

(* C9: when the retained rows have pairwise distinct interview numbers,    *)
(* every rearrangement of the file's rows yields the rows of the table     *)
(* that was shown and the four summary values that were shown.             *)
C9_OrderIndependent ==
    (Succeeded /\ DistinctInterviews(uploaded_file)) =>
        \A p \in Arrangements(Len(uploaded_file.rows)) :
            \A t \in FinalTables(Rearranged(uploaded_file, p)) :
                /\ Values(t) = Values(PreviewTable)
                /\ Summary(t)["Total Interviews"].n = MetricValue("Total Interviews")
                /\ Summary(t)["Total Unique Concepts"].n = MetricValue("Total Unique Concepts")
                /\ Summary(t)["Avg Concepts/Interview"] = MetricValue("Avg Concepts/Interview")
                /\ Summary(t)["Avg New Concepts/Interview"]
                      = MetricValue("Avg New Concepts/Interview")

C9_Witness ==
    /\ Succeeded
    /\ uploaded_file = ShuffledExampleFile
    /\ ColumnValues(PreviewTable, BoundLabels[1])
          = <<Whole(1), Whole(2), Whole(3), Whole(4), Whole(5)>>
    /\ Values(PreviewTable) \in {Values(t) : t \in FinalTables(ExampleFile)}

(* C10: the final table is ascending by interview number and rows with     *)
(* equal interview numbers keep the relative order they had after the      *)
(* filter (the order of the file).                                         *)
C10_StableSort ==
    PreviewShown =>
        LET key == ColumnValues(PreviewTable, BoundLabels[1])
        IN \A i, j \in DOMAIN key :
              i < j => /\ key[i] <= key[j]
                       /\ key[i] = key[j] =>
                             PreviewTable.rows[i].index < PreviewTable.rows[j].index

====
